---------------------------- MODULE Spec2Model ----------------------------
(***************************************************************************)
(* A model of ignite's event vocabulary (ignite/engine/events.py) and of   *)
(* its Horovod computation model (ignite/distributed/comp_models/          *)
(* horovod.py).                                                            *)
(*                                                                         *)
(* The module holds several specifications over one set of variables, one  *)
(* per part of the program; each leaves the variables of the other parts   *)
(* at their initial values:                                                *)
(*   SpecCall    CallableEventWithFilter.__call__ on a heap of events      *)
(*   SpecFire    an engine firing one event for a handler subscribed with  *)
(*               a filtered event                                          *)
(*   SpecOr      the evaluation of e1 | e2 | ... | ek                      *)
(*   SpecState   State.get_event_attrib_value                              *)
(*   SpecHandle  RemovableEventHandle on an engine's handler registry      *)
(*   SpecHvd     _HorovodDistModel over the Horovod library                *)
(***************************************************************************)
EXTENDS Integers, Sequences, FiniteSets, TLC

(***************************************************************************)
(* Bounds of the model.                                                    *)
(***************************************************************************)
\* SpecCall: the largest integer passed as every= or once=
MaxCallN == 2
\* SpecCall: the events created by __call__ that the heap holds
MaxObjs == 2
\* SpecFire: the largest integer passed as every= or once=
MaxN == 3
\* SpecFire, SpecState: the iterations, and the epochs, of a run
MaxCount == 6
\* SpecOr: the operands of one | expression
MaxOperands == 4
\* SpecHandle: the entries the registry holds for one event name
MaxEntries == 2
\* SpecHandle: the events of an EventsList a handler is registered with
MaxListLen == 2
\* SpecHvd: the largest rank the launcher gives this process
MaxRank == 1
\* SpecHvd: the _HorovodDistModel objects created
MaxModels == 2
\* SpecHvd: the largest value held by a tensor passed to a collective operation
MaxTensor == 1

(***************************************************************************)
(* Python values passed as arguments: None, an integer, a float, or a      *)
(* callable.  A callable is named by the filter it is: a user function     *)
(* ("custom"), a user function that does not take (engine, event)          *)
(* ("badsig"), or one of the wrappers the module itself builds.            *)
(***************************************************************************)
NoneArg == [t |-> "none", k |-> "", v |-> 0]

IntArg(n) == [t |-> "int", k |-> "", v |-> n]

\* a float such as 2.0: positive, but not numbers.Integral
FloatArg == [t |-> "float", k |-> "", v |-> 2]

FnArg(f) == [t |-> "callable", k |-> f.kind, v |-> f.n]

IsNone(a) == a.t = "none"

\* callable(x)
Callable(a) == a.t = "callable"

\* isinstance(x, numbers.Integral)
IsIntegral(a) == a.t = "int"

(***************************************************************************)
(* Event filters: functions of (engine, event).                            *)
(***************************************************************************)
default_event_filter == [kind |-> "default", n |-> 0]

every_event_filter(every) == [kind |-> "every", n |-> every]

once_event_filter(once) == [kind |-> "once", n |-> once]

\* the user's filter of the Events docstring: event in [1, 2, 5, ...]
CustomFilter == [kind |-> "custom", n |-> 0]

\* a user callable that cannot be called with (engine, event)
BadSigFilter == [kind |-> "badsig", n |-> 0]

CustomFilterSet == {1, 2, 5}

\* every_event_filter's wrapper counting occurrences from zero
EveryWrapperOffByOne(every, engine, event) ==
    IF event % every = 1 THEN TRUE ELSE FALSE

\* every_event_filter(every)'s wrapper(engine, event)
EveryWrapper(every, engine, event) ==
    IF event % every = 0 THEN TRUE ELSE FALSE

\* once_event_filter's wrapper firing from the once-th occurrence on
OnceWrapperFrom(once, engine, event) ==
    IF event >= once THEN TRUE ELSE FALSE

\* once_event_filter(once)'s wrapper(engine, event)
OnceWrapper(once, engine, event) ==
    IF event = once THEN TRUE ELSE FALSE

\* default_event_filter(engine, event)
DefaultWrapper(engine, event) == TRUE

\* filter(engine, event)
ApplyFilter(f, engine, event) ==
    CASE f.kind = "default" -> DefaultWrapper(engine, event)
      [] f.kind = "every" -> EveryWrapper(f.n, engine, event)
      [] f.kind = "once" -> OnceWrapper(f.n, engine, event)
      [] OTHER -> event \in CustomFilterSet

\* ignite.engine.utils._check_signature(fn, "event_filter", "engine", "event")
SignatureOk(a) == a.k # "badsig"

(***************************************************************************)
(* Events: the members of the Events enum, in definition order, and the    *)
(* members of two user enums (EventEnum subclasses): the docstring's       *)
(* CustomEvents.FOO_EVENT, and a user enum that names a member STARTED.    *)
(***************************************************************************)
EventsMembers ==
    << [name |-> "EPOCH_STARTED", value |-> "epoch_started"],
       [name |-> "EPOCH_COMPLETED", value |-> "epoch_completed"],
       [name |-> "STARTED", value |-> "started"],
       [name |-> "COMPLETED", value |-> "completed"],
       [name |-> "ITERATION_STARTED", value |-> "iteration_started"],
       [name |-> "ITERATION_COMPLETED", value |-> "iteration_completed"],
       [name |-> "EXCEPTION_RAISED", value |-> "exception_raised"],
       [name |-> "GET_BATCH_STARTED", value |-> "get_batch_started"],
       [name |-> "GET_BATCH_COMPLETED", value |-> "get_batch_completed"],
       [name |-> "DATALOADER_STOP_ITERATION", value |-> "dataloader_stop_iteration"],
       [name |-> "TERMINATE", value |-> "terminate"],
       [name |-> "TERMINATE_SINGLE_EPOCH", value |-> "terminate_single_epoch"] >>

CustomMembers ==
    << [name |-> "FOO_EVENT", value |-> "foo_event"],
       [name |-> "STARTED", value |-> "custom_started"] >>

\* CallableEventWithFilter.__init__(value, event_filter, name)
NewEvent(value, event_filter, name) ==
    [name |-> name,
     value |-> value,
     filter |-> IF IsNone(event_filter)
                THEN default_event_filter
                ELSE [kind |-> event_filter.k, n |-> event_filter.v]]

\* an enum member: built by the enum machinery with the default filter
Member(m) == NewEvent(m.value, NoneArg, m.name)

RECURSIVE MapMembers(_)
MapMembers(s) ==
    IF s = << >> THEN << >> ELSE << Member(Head(s)) >> \o MapMembers(Tail(s))

BuiltinEvents == MapMembers(EventsMembers)

CustomEvents == MapMembers(CustomMembers)

AllMembers == BuiltinEvents \o CustomEvents

EventByName(n) ==
    CHOOSE e \in {BuiltinEvents[i] : i \in DOMAIN BuiltinEvents} : e.name = n

(***************************************************************************)
(* CallableEventWithFilter.__call__(event_filter, every, once): what it    *)
(* raises or the event it returns, and the receiver as the call leaves it. *)
(***************************************************************************)
Xor(a, b) == a # b

Raise(self, exc) == [outcome |-> exc, ev |-> self, self |-> self]

Return(self, e) == [outcome |-> "ok", ev |-> e, self |-> self]

\* line 65: (event_filter is not None) ^ (every is not None) ^ (once is not None)
OneArgGiven(event_filter, every, once) ==
    Xor(Xor(~IsNone(event_filter), ~IsNone(every)), ~IsNone(once))

\* a choice of filter that builds the every-wrapper for every=1 as for any other
ChosenFilterNoShortcut(event_filter, every, once) ==
    LET f1 == IF ~IsNone(every)
              THEN FnArg(every_event_filter(every.v))
              ELSE event_filter
    IN  IF ~IsNone(once) THEN FnArg(once_event_filter(once.v)) ELSE f1

\* lines 77-85: the filter the new event gets
ChosenFilter(event_filter, every, once) ==
    LET f1 == IF ~IsNone(every)
              THEN IF every.v = 1
                   THEN NoneArg
                   ELSE FnArg(every_event_filter(every.v))
              ELSE event_filter
    IN  IF ~IsNone(once) THEN FnArg(once_event_filter(once.v)) ELSE f1

\* line 71 (and line 74 for once): an integer greater than zero
PositiveIntAllowZero(a) == IsIntegral(a) /\ a.v >= 0

PositiveInt(a) == IsIntegral(a) /\ a.v > 0

\* lines 65-75: the exception the argument checks raise, or "ok"
ArgError(event_filter, every, once) ==
    IF ~OneArgGiven(event_filter, every, once)
    THEN "ValueError"
    ELSE IF ~IsNone(event_filter) /\ ~Callable(event_filter)
    THEN "TypeError"
    ELSE IF ~IsNone(every) /\ ~PositiveInt(every)
    THEN "ValueError"
    ELSE IF ~IsNone(once) /\ ~PositiveInt(once)
    THEN "ValueError"
    ELSE "ok"

\* a __call__ that sets the receiver's filter and returns the receiver's fields
EventCallInPlace(self, event_filter, every, once) ==
    IF ArgError(event_filter, every, once) # "ok"
    THEN Raise(self, ArgError(event_filter, every, once))
    ELSE LET f == ChosenFilter(event_filter, every, once)
             e == NewEvent(self.value, f, self.name)
         IN  IF ~IsNone(f) /\ ~SignatureOk(f)
             THEN Raise(self, "ValueError")
             ELSE [outcome |-> "ok", ev |-> e, self |-> e]

EventCall(self, event_filter, every, once) ==
    IF ArgError(event_filter, every, once) # "ok"
    THEN Raise(self, ArgError(event_filter, every, once))
    ELSE LET f == ChosenFilter(event_filter, every, once)
         IN  IF ~IsNone(f) /\ ~SignatureOk(f)
             THEN Raise(self, "ValueError")
             ELSE Return(self, NewEvent(self.value, f, self.name))

(***************************************************************************)
(* The values a caller passes.                                             *)
(***************************************************************************)
FilterArgs == {NoneArg, IntArg(2), FnArg(CustomFilter), FnArg(BadSigFilter)}

NumberArgs == {NoneArg, FloatArg} \cup {IntArg(n) : n \in -1 .. MaxCallN}

(***************************************************************************)
(* State: the attributes an event's count is read from.                    *)
(***************************************************************************)
\* State.event_to_attr: a dict keyed by events, which hash and compare by name
event_to_attr ==
    [n \in {"GET_BATCH_STARTED", "GET_BATCH_COMPLETED", "ITERATION_STARTED",
            "ITERATION_COMPLETED", "EPOCH_STARTED", "EPOCH_COMPLETED", "STARTED",
            "COMPLETED"} |->
        IF n \in {"GET_BATCH_STARTED", "GET_BATCH_COMPLETED", "ITERATION_STARTED",
                  "ITERATION_COMPLETED"}
        THEN "iteration"
        ELSE "epoch"]

\* State.__init__(): iteration = 0, epoch = 0
NewState == [iteration |-> 0, epoch |-> 0]

\* a lookup that finds only the members themselves, not their filtered versions
GetAttribUnfilteredOnly(st, event_name) ==
    IF event_name.name \notin DOMAIN event_to_attr
       \/ event_name.filter # default_event_filter
    THEN [outcome |-> "RuntimeError", value |-> 0]
    ELSE [outcome |-> "ok", value |-> st[event_to_attr[event_name.name]]]

\* State.get_event_attrib_value(event_name)
get_event_attrib_value(st, event_name) ==
    IF event_name.name \notin DOMAIN event_to_attr
    THEN [outcome |-> "RuntimeError", value |-> 0]
    ELSE [outcome |-> "ok", value |-> st[event_to_attr[event_name.name]]]

VARIABLES
    objs,       \* SpecCall: the heap of events, members first, then the created ones
    lastCall,   \* SpecCall: the last __call__: its receiver, arguments and outcome
    state,      \* the engine's State: iteration and epoch
    sub,        \* SpecFire: the events the handler is registered with (none or one)
    phase,      \* SpecFire: the run loop: "idle" between epochs, "epoch" within one
    seen,       \* SpecFire: the event count at each occurrence of the handler's event
    fired,      \* SpecFire: the event counts at which the handler was called
    lists,      \* SpecOr: the heap of EventsList objects, each its _events
    acc,        \* SpecOr: the value of the expression evaluated so far
    operands,   \* SpecOr: the operands evaluated so far, left to right
    lastGet,    \* SpecState: the get_event_attrib_value just made, if one was
    hvd,        \* SpecHvd: the Horovod library: initialized or not, and this process's rank
    cudaDevice, \* SpecHvd: the device torch.cuda.set_device chose, -1 when none
    models,     \* SpecHvd: the _HorovodDistModel objects created
    lastHvd,    \* SpecHvd: the last operation: its inputs, outcome and library calls
    registry,   \* SpecHandle: the engine's _event_handlers: per event name, its entries
    engineAlive,    \* SpecHandle: the engine has not been garbage-collected
    handlerAlive,   \* SpecHandle: the handlers that have not been garbage-collected
    handle,     \* SpecHandle: the RemovableEventHandle the caller kept (none or one)
    withPc,     \* SpecHandle: the with-statement on the handle: "out", "in", "left", "raised"
    lastHandle  \* SpecHandle: the last operation: its outcome and the engine calls it made

callVars == << objs, lastCall >>

fireVars == << sub, phase, seen, fired >>

orVars == << lists, acc, operands >>

hvdVars == << hvd, cudaDevice, models, lastHvd >>

handleVars == << registry, engineAlive, handlerAlive, handle, withPc, lastHandle >>

vars == << callVars, state, fireVars, orVars, lastGet, hvdVars, handleVars >>

restCall == << state, fireVars, orVars, lastGet, hvdVars, handleVars >>

restFire == << callVars, orVars, lastGet, hvdVars, handleVars >>

restOr == << callVars, state, fireVars, lastGet, hvdVars, handleVars >>

restState == << callVars, fireVars, orVars, hvdVars, handleVars >>

restHvd == << callVars, state, fireVars, orVars, lastGet, handleVars >>

restHandle == << callVars, fireVars, orVars, lastGet, hvdVars >>

NoCall == [self |-> 0, selfBefore |-> BuiltinEvents[1], nobjs |-> 0,
           event_filter |-> NoneArg, every |-> NoneArg, once |-> NoneArg,
           outcome |-> "none", result |-> 0]

NoValue == [t |-> "none", ref |-> 0, ev |-> BuiltinEvents[1]]

NoGet == [event |-> BuiltinEvents[1], outcome |-> "none", value |-> 0,
          before |-> NewState]

NoHvd == [op |-> "none", model |-> 0, arg |-> "", tensor |-> 0, outcome |-> "none",
          calls |-> << >>, returned |-> 0]

\* the event names handlers are registered for in SpecHandle
HandleNames == {"EPOCH_COMPLETED", "ITERATION_STARTED"}

\* the user's handler functions: the docstring's print_epoch, and another
Handlers == {"print_epoch", "other"}

\* Engine.__init__: no handler is registered
EmptyRegistry == [n \in HandleNames |-> << >>]

NoHandleOp == [op |-> "none", outcome |-> "none", calls |-> << >>, changed |-> FALSE,
               exc |-> FALSE]

Init ==
    /\ objs = AllMembers
    /\ lastCall = NoCall
    /\ state = NewState
    /\ sub = << >>
    /\ phase = "idle"
    /\ seen = << >>
    /\ fired = << >>
    /\ lists = << >>
    /\ acc = NoValue
    /\ operands = << >>
    /\ lastGet = NoGet
    /\ hvd = [initialized |-> FALSE, rank |-> -1]
    /\ cudaDevice = -1
    /\ models = << >>
    /\ lastHvd = NoHvd
    /\ registry = EmptyRegistry
    /\ engineAlive = TRUE
    /\ handlerAlive = Handlers
    /\ handle = << >>
    /\ withPc = "out"
    /\ lastHandle = NoHandleOp

(***************************************************************************)
(* SpecCall: a caller that filters events, e = E(...), e2 = e(...), until  *)
(* a call raises.                                                          *)
(***************************************************************************)
\* the members a caller filters: an iteration event and a custom one
CallTargets == {5, 13}

\* objs[self](event_filter, every, once); an exception ends the caller
Call(self, event_filter, every, once) ==
    LET r == EventCall(objs[self], event_filter, every, once)
        heap == [objs EXCEPT ![self] = r.self]
    IN  /\ objs' = IF r.outcome = "ok" THEN Append(heap, r.ev) ELSE heap
        /\ lastCall' = [self |-> self, selfBefore |-> objs[self], nobjs |-> Len(objs),
                        event_filter |-> event_filter, every |-> every, once |-> once,
                        outcome |-> r.outcome,
                        result |-> IF r.outcome = "ok" THEN Len(objs) + 1 ELSE 0]
        /\ UNCHANGED restCall

\* the caller goes on: nothing was raised, and the heap has room
CallerRuns ==
    /\ lastCall.outcome \in {"none", "ok"}
    /\ Len(objs) < Len(AllMembers) + MaxObjs

NextCall ==
    /\ CallerRuns
    /\ \E self \in DOMAIN objs, event_filter \in FilterArgs, every \in NumberArgs,
          once \in NumberArgs :
           /\ self \in CallTargets \/ self > Len(AllMembers)
           /\ Call(self, event_filter, every, once)

SpecCall == Init /\ [][NextCall]_vars


(***************************************************************************)
(* Claims about __call__ (SpecCall).                                       *)
(***************************************************************************)
Called == lastCall.outcome # "none"

\* how many of event_filter, every, once the last call was given
NumGiven ==
    (IF IsNone(lastCall.event_filter) THEN 0 ELSE 1)
    + (IF IsNone(lastCall.every) THEN 0 ELSE 1)
    + (IF IsNone(lastCall.once) THEN 0 ELSE 1)

\* the call created nothing and left the heap as it was
NoNewEvent == Len(objs) = lastCall.nobjs /\ objs[lastCall.self] = lastCall.selfBefore

\* C3: a call given none, two or all three of event_filter, every and once
\* raises ValueError and creates no event.
C3_OnlyOneArgument ==
    (Called /\ NumGiven # 1) => (lastCall.outcome = "ValueError" /\ NoNewEvent)

\* C4: a call given one argument that is invalid creates no event and raises
\* ValueError for every or once that is not an integer greater than zero,
\* TypeError for an event_filter that is not callable.
C4_InvalidArgumentRejected ==
    (Called /\ NumGiven = 1) =>
        /\ (~IsNone(lastCall.every) /\ ~(lastCall.every.t = "int" /\ lastCall.every.v > 0))
              => (lastCall.outcome = "ValueError" /\ NoNewEvent)
        /\ (~IsNone(lastCall.once) /\ ~(lastCall.once.t = "int" /\ lastCall.once.v > 0))
              => (lastCall.outcome = "ValueError" /\ NoNewEvent)
        /\ (~IsNone(lastCall.event_filter) /\ lastCall.event_filter.t # "callable")
              => (lastCall.outcome = "TypeError" /\ NoNewEvent)

C4_Witness ==
    /\ lastCall.every = IntArg(0)
    /\ NumGiven = 1
    /\ lastCall.outcome = "ValueError"
    /\ lastCall.self > Len(AllMembers)

\* C5: a call that returns gives a new event with the receiver's name and
\* value, and leaves the receiver as it was, filter included.
C5_NewEventSameNameValue ==
    lastCall.outcome = "ok" =>
        /\ lastCall.result = Len(objs)
        /\ lastCall.result = lastCall.nobjs + 1
        /\ lastCall.result # lastCall.self
        /\ objs[lastCall.result].name = lastCall.selfBefore.name
        /\ objs[lastCall.result].value = lastCall.selfBefore.value
        /\ objs[lastCall.self] = lastCall.selfBefore

\* a filtered event is filtered again, and keeps its own filter
C5_Witness ==
    /\ lastCall.outcome = "ok"
    /\ lastCall.self > Len(AllMembers)
    /\ objs[lastCall.self].filter = every_event_filter(2)
    /\ objs[lastCall.result].filter = once_event_filter(1)
    /\ objs[lastCall.result].name = "ITERATION_STARTED"


(***************************************************************************)
(* SpecFire: one handler is registered with an event, filtered or not, and *)
(* the engine runs.  The engine is ignite.engine.engine.Engine: its run    *)
(* loop raises state.epoch before EPOCH_STARTED and state.iteration before *)
(* ITERATION_STARTED, and the wrapper it registers for a filtered event    *)
(* calls the handler when filter(engine, count) is true, count being       *)
(* state.get_event_attrib_value(event_name).                               *)
(***************************************************************************)
FireArgs == {NoneArg} \cup {IntArg(n) : n \in 1 .. MaxN}

FireTargets == {"ITERATION_STARTED", "ITERATION_COMPLETED", "EPOCH_STARTED",
                "EPOCH_COMPLETED"}

\* engine.add_event_handler(E, handler)
SubscribePlain(name) ==
    /\ sub = << >>
    /\ sub' = << EventByName(name) >>
    /\ UNCHANGED << restFire, state, phase, seen, fired >>

\* engine.add_event_handler(E(event_filter=..., every=..., once=...), handler)
SubscribeFiltered(name, event_filter, every, once) ==
    LET r == EventCall(EventByName(name), event_filter, every, once)
    IN  /\ sub = << >>
        /\ r.outcome = "ok"
        /\ sub' = << r.ev >>
        /\ UNCHANGED << restFire, state, phase, seen, fired >>

\* Engine._fire_event(name) in engine state st: the counts seen and fired at
FireEvent(name, st, sf) ==
    IF sub = << >> \/ sub[1].name # name
    THEN sf
    ELSE LET event == get_event_attrib_value(st, sub[1]).value
         IN  [seen |-> Append(sf.seen, event),
              fired |-> IF ApplyFilter(sub[1].filter, "engine", event)
                        THEN Append(sf.fired, event)
                        ELSE sf.fired]

\* the run loop enters an epoch
StartEpoch ==
    /\ sub # << >>
    /\ phase = "idle"
    /\ state.epoch < MaxCount
    /\ LET st == [state EXCEPT !.epoch = @ + 1]
           sf == FireEvent("EPOCH_STARTED", st, [seen |-> seen, fired |-> fired])
       IN  /\ state' = st
           /\ seen' = sf.seen
           /\ fired' = sf.fired
    /\ phase' = "epoch"
    /\ UNCHANGED << restFire, sub >>

\* the run loop runs one iteration
Iteration ==
    /\ phase = "epoch"
    /\ state.iteration < MaxCount
    /\ LET st == [state EXCEPT !.iteration = @ + 1]
           s1 == FireEvent("ITERATION_STARTED", st, [seen |-> seen, fired |-> fired])
           s2 == FireEvent("ITERATION_COMPLETED", st, s1)
       IN  /\ state' = st
           /\ seen' = s2.seen
           /\ fired' = s2.fired
    /\ UNCHANGED << restFire, sub, phase >>

\* the run loop leaves the epoch
EndEpoch ==
    /\ phase = "epoch"
    /\ LET sf == FireEvent("EPOCH_COMPLETED", state, [seen |-> seen, fired |-> fired])
       IN  /\ seen' = sf.seen
           /\ fired' = sf.fired
    /\ phase' = "idle"
    /\ UNCHANGED << restFire, sub, state >>

Subscribe ==
    \/ \E name \in FireTargets : SubscribePlain(name)
    \/ \E name \in FireTargets, event_filter \in {NoneArg, FnArg(CustomFilter)},
          every \in FireArgs, once \in FireArgs :
           SubscribeFiltered(name, event_filter, every, once)

NextFire == Subscribe \/ StartEpoch \/ Iteration \/ EndEpoch

SpecFire == Init /\ [][NextFire]_vars

(***************************************************************************)
(* Claims about the every and once filters (SpecFire).                     *)
(***************************************************************************)
\* the counts 1, 2, ..., n
RECURSIVE UpTo(_)
UpTo(n) == IF n = 0 THEN << >> ELSE Append(UpTo(n - 1), n)

Multiple(c, n) == \E k \in 0 .. MaxCount : c = k * n

\* the multiples of n among 1 .. upto, in increasing order
RECURSIVE MultiplesUpTo(_, _)
MultiplesUpTo(n, upto) ==
    IF upto = 0
    THEN << >>
    ELSE IF Multiple(upto, n)
         THEN Append(MultiplesUpTo(n, upto - 1), upto)
         ELSE MultiplesUpTo(n, upto - 1)

\* C1: with every=N, N > 1, the filter is true of count c exactly when N
\* divides c, and over the occurrences 1, 2, 3, ... of its event the handler
\* has been called at the multiples of N and at no other occurrence.
C1_EveryFiresAtMultiples ==
    (sub # << >> /\ sub[1].filter.kind = "every") =>
        /\ sub[1].filter.n > 1
        /\ \A c \in 0 .. MaxCount :
              ApplyFilter(sub[1].filter, "engine", c) <=> Multiple(c, sub[1].filter.n)
        /\ seen = UpTo(Len(seen))
        /\ fired = MultiplesUpTo(sub[1].filter.n, Len(seen))

\* every=2 after four occurrences: called at the second and the fourth
C1_Witness ==
    /\ sub # << >>
    /\ sub[1].filter = every_event_filter(2)
    /\ seen = << 1, 2, 3, 4 >>
    /\ fired = << 2, 4 >>

\* C2: with once=N, over the occurrences 1, 2, 3, ... of its event the handler
\* has been called at the N-th occurrence only: not before it, once at it,
\* and not again after it.
C2_OnceFiresAtN ==
    (sub # << >> /\ sub[1].filter.kind = "once") =>
        /\ sub[1].filter.n > 0
        /\ seen = UpTo(Len(seen))
        /\ fired = IF Len(seen) >= sub[1].filter.n THEN << sub[1].filter.n >> ELSE << >>

\* once=2 after four occurrences: called at the second only
C2_Witness ==
    /\ sub # << >>
    /\ sub[1].filter = once_event_filter(2)
    /\ seen = << 1, 2, 3, 4 >>
    /\ fired = << 2 >>

\* E(every=1)
EveryOne(e) == EventCall(e, NoneArg, IntArg(1), NoneArg)

\* the events every=1 is asked of: the members, and events already filtered
EveryOneReceivers ==
    UNION { { EventByName(name),
              EventCall(EventByName(name), NoneArg, IntArg(2), NoneArg).ev,
              EventCall(EventByName(name), NoneArg, NoneArg, IntArg(MaxN)).ev,
              EventCall(EventByName(name), FnArg(CustomFilter), NoneArg, NoneArg).ev }
            : name \in FireTargets }

\* C12: E(every=1) is an event with E's name and value whose filter is the
\* default filter, true of every engine and every count, which makes it the
\* same event as the unfiltered member; a handler registered with it has
\* been called at every occurrence 1, 2, 3, ... of the event.
C12_EveryOneIsUnfiltered ==
    /\ \A e \in EveryOneReceivers :
          /\ EveryOne(e).outcome = "ok"
          /\ EveryOne(e).ev.filter = default_event_filter
          /\ EveryOne(e).ev = EventByName(e.name)
          /\ \A c \in 0 .. MaxCount : ApplyFilter(EveryOne(e).ev.filter, "engine", c)
    /\ \A name \in FireTargets :
          sub = << EveryOne(EventByName(name)).ev >> =>
              /\ seen = UpTo(Len(seen))
              /\ fired = seen

\* ITERATION_STARTED(every=1) after three iterations: called at each of them
C12_Witness ==
    /\ sub = << EveryOne(EventByName("ITERATION_STARTED")).ev >>
    /\ sub[1].filter = default_event_filter
    /\ seen = << 1, 2, 3 >>
    /\ fired = << 1, 2, 3 >>


(***************************************************************************)
(* EventsList and the | operator.                                          *)
(***************************************************************************)
\* an operand of |: an event, or something else (a string, an EventsList)
EventOperand(e) == [isEvent |-> TRUE, ev |-> e]

OtherOperand == [isEvent |-> FALSE, ev |-> BuiltinEvents[1]]

\* an _append that leaves out an event the list already holds (events
\* compare equal by name)
AppendUnique(events, event) ==
    IF ~event.isEvent
    THEN [outcome |-> "TypeError", events |-> events]
    ELSE IF \E i \in DOMAIN events : events[i].name = event.ev.name
    THEN [outcome |-> "ok", events |-> events]
    ELSE [outcome |-> "ok", events |-> Append(events, event.ev)]

\* EventsList._append(event) on a list whose _events is events
EventsListAppend(events, event) ==
    IF ~event.isEvent
    THEN [outcome |-> "TypeError", events |-> events]
    ELSE [outcome |-> "ok", events |-> Append(events, event.ev)]

\* EventsList.__or__(other): appends to the list itself and returns it
EventsListOr(events, other) == EventsListAppend(events, other)

\* Events.__or__ and CallableEventWithFilter.__or__: EventsList() | self | other
EventOr(self, other) ==
    LET new == << >>
        r1 == EventsListOr(new, EventOperand(self))
    IN  IF r1.outcome # "ok" THEN r1 ELSE EventsListOr(r1.events, other)

(***************************************************************************)
(* SpecOr: the evaluation of e1 | e2 | ... | ek, left to right, until an   *)
(* operand raises.                                                         *)
(***************************************************************************)
\* the events of the Events docstring's example, and ITERATION_STARTED unfiltered
OrEvents ==
    { EventByName("STARTED"), EventByName("COMPLETED"), EventByName("ITERATION_STARTED"),
      EventCall(EventByName("ITERATION_STARTED"), NoneArg, IntArg(3), NoneArg).ev }

OrOperands == {EventOperand(e) : e \in OrEvents} \cup {OtherOperand}

\* the first operand is evaluated
OrFirst(e) ==
    /\ acc.t = "none"
    /\ acc' = [t |-> "event", ref |-> 0, ev |-> e]
    /\ operands' = << EventOperand(e) >>
    /\ UNCHANGED << lists, restOr >>

\* event | other: a new EventsList joins the heap (also when other is refused)
OrOfEvent(other) ==
    LET r == EventOr(acc.ev, other)
    IN  /\ acc.t = "event"
        /\ lists' = Append(lists, r.events)
        /\ acc' = IF r.outcome = "ok"
                  THEN [t |-> "list", ref |-> Len(lists) + 1, ev |-> acc.ev]
                  ELSE [t |-> r.outcome, ref |-> 0, ev |-> acc.ev]
        /\ operands' = Append(operands, other)
        /\ UNCHANGED restOr

\* events_list | other
OrOfList(other) ==
    LET r == EventsListOr(lists[acc.ref], other)
    IN  /\ acc.t = "list"
        /\ Len(operands) < MaxOperands
        /\ lists' = [lists EXCEPT ![acc.ref] = r.events]
        /\ acc' = IF r.outcome = "ok" THEN acc ELSE [acc EXCEPT !.t = r.outcome]
        /\ operands' = Append(operands, other)
        /\ UNCHANGED restOr

NextOr ==
    \/ \E e \in OrEvents : OrFirst(e)
    \/ \E other \in OrOperands : OrOfEvent(other)
    \/ \E other \in OrOperands : OrOfList(other)

SpecOr == Init /\ [][NextOr]_vars

\* C6: e1 | e2 | ... | ek over events is an EventsList of length k holding
\* e1, ..., ek in that order, repeated events kept, each with its own filter.
C6_OrKeepsOperandsInOrder ==
    acc.t = "list" =>
        /\ Len(lists[acc.ref]) = Len(operands)
        /\ \A i \in DOMAIN operands :
              operands[i].isEvent /\ lists[acc.ref][i] = operands[i].ev

\* STARTED | ITERATION_STARTED(every=3) | STARTED | ITERATION_STARTED
C6_Witness ==
    /\ acc.t = "list"
    /\ Len(lists[acc.ref]) = 4
    /\ lists[acc.ref][1] = EventByName("STARTED")
    /\ lists[acc.ref][2].filter = every_event_filter(3)
    /\ lists[acc.ref][3] = EventByName("STARTED")
    /\ lists[acc.ref][4] = EventByName("ITERATION_STARTED")

(***************************************************************************)
(* SpecState: the engine raises state.iteration and state.epoch, and       *)
(* get_event_attrib_value is asked for the count of an event.              *)
(***************************************************************************)
\* every member, and every member filtered with every=2
RECURSIVE FilteredMembers(_)
FilteredMembers(s) ==
    IF s = << >>
    THEN {}
    ELSE {Head(s), EventCall(Head(s), NoneArg, IntArg(2), NoneArg).ev}
         \cup FilteredMembers(Tail(s))

StateEvents == FilteredMembers(AllMembers)

\* state.iteration += 1
RaiseIteration ==
    /\ state.iteration < MaxCount
    /\ state' = [state EXCEPT !.iteration = @ + 1]
    /\ lastGet' = NoGet
    /\ UNCHANGED restState

\* state.epoch += 1
RaiseEpoch ==
    /\ state.epoch < MaxCount
    /\ state' = [state EXCEPT !.epoch = @ + 1]
    /\ lastGet' = NoGet
    /\ UNCHANGED restState

\* state.get_event_attrib_value(event_name)
GetEventAttribValue(event_name) ==
    LET r == get_event_attrib_value(state, event_name)
    IN  /\ lastGet' = [event |-> event_name, outcome |-> r.outcome, value |-> r.value,
                       before |-> state]
        /\ UNCHANGED << state, restState >>

NextState ==
    \/ RaiseIteration
    \/ RaiseEpoch
    \/ \E event_name \in StateEvents : GetEventAttribValue(event_name)

SpecState == Init /\ [][NextState]_vars

(***************************************************************************)
(* Claims about get_event_attrib_value (SpecState).                        *)
(***************************************************************************)
IterationNames == {"GET_BATCH_STARTED", "GET_BATCH_COMPLETED", "ITERATION_STARTED",
                   "ITERATION_COMPLETED"}

EpochNames == {"EPOCH_STARTED", "EPOCH_COMPLETED", "STARTED", "COMPLETED"}

\* e is the member of Events named n, or a filtered version of it
VersionOf(e, n) == e.name = n /\ e.value = EventByName(n).value

\* C9 as stated: the iteration for the four iteration events of Events, the
\* epoch for its four epoch events, filtered or not, RuntimeError for every
\* other event, custom events included, and the state is not changed.
C9_AsStated ==
    lastGet.outcome # "none" =>
        /\ state = lastGet.before
        /\ (\E n \in IterationNames : VersionOf(lastGet.event, n))
              => (lastGet.outcome = "ok" /\ lastGet.value = state.iteration)
        /\ (\E n \in EpochNames : VersionOf(lastGet.event, n))
              => (lastGet.outcome = "ok" /\ lastGet.value = state.epoch)
        /\ (~\E n \in IterationNames \cup EpochNames : VersionOf(lastGet.event, n))
              => lastGet.outcome = "RuntimeError"

\* C9, amended: the event is looked up by its name alone.  The iteration for
\* an event named as one of the four iteration events, the epoch for an event
\* named as one of the four epoch events, whatever its filter and whatever
\* enum it belongs to, RuntimeError for an event of any other name, and the
\* state is not changed.
C9_AttribByName ==
    lastGet.outcome # "none" =>
        /\ state = lastGet.before
        /\ lastGet.event.name \in IterationNames
              => (lastGet.outcome = "ok" /\ lastGet.value = state.iteration)
        /\ lastGet.event.name \in EpochNames
              => (lastGet.outcome = "ok" /\ lastGet.value = state.epoch)
        /\ lastGet.event.name \notin IterationNames \cup EpochNames
              => lastGet.outcome = "RuntimeError"

\* ITERATION_COMPLETED(every=2) in the second iteration of the first epoch
C9_Witness ==
    /\ lastGet.outcome = "ok"
    /\ lastGet.event.name = "ITERATION_COMPLETED"
    /\ lastGet.event.filter = every_event_filter(2)
    /\ state.iteration = 2
    /\ state.epoch = 1
    /\ lastGet.value = 2

(***************************************************************************)
(* The Horovod library (horovod.torch, imported as hvd): a process is      *)
(* given its rank when the library is initialized, and rank() and          *)
(* local_rank() raise ValueError while it is not.                          *)
(***************************************************************************)
\* line 12: the class is defined only when the import succeeded
has_hvd_support == TRUE

HOROVOD == "horovod"

available_backends == {HOROVOD}

\* hvd.rank(), hvd.local_rank()
HvdRank(lib) ==
    IF lib.initialized
    THEN [outcome |-> "ok", value |-> lib.rank]
    ELSE [outcome |-> "ValueError", value |-> 0]

\* hvd.init(comm=comm), the launcher giving the process the rank r
HvdInit(lib, r) == [initialized |-> TRUE, rank |-> r]

\* hvd.shutdown()
HvdShutdown(lib) == [initialized |-> FALSE, rank |-> -1]

(***************************************************************************)
(* _HorovodDistModel.  Each operation gives its outcome, what it returns,  *)
(* the library as it leaves it, and the library calls it made, in order.   *)
(***************************************************************************)
\* _get_hvd_rank()
get_hvd_rank(lib) ==
    IF HvdRank(lib).outcome = "ValueError" THEN -1 ELSE HvdRank(lib).value

\* __init__(do_init, **kwargs) with the launcher's rank r and torch.cuda.is_available()
\* cuda; _setup_attrs() is ComputationModel's and asks the library its size and rank
ModelInit(lib, do_init, r, cuda, device) ==
    LET lib1 == IF do_init THEN HvdInit(lib, r) ELSE lib
        local_rank == HvdRank(lib1).value
    IN  [outcome |-> HvdRank(lib1).outcome,
         lib |-> lib1,
         model |-> IF HvdRank(lib1).outcome = "ok"
                   THEN << [backend |-> HOROVOD, local_rank |-> local_rank] >>
                   ELSE << >>,
         device |-> IF cuda THEN local_rank ELSE device,
         calls |-> (IF do_init THEN << "init" >> ELSE << >>)
                   \o << "local_rank" >> \o << "size", "rank" >>]

\* create_from_context()
create_from_context(lib, cuda, device) ==
    LET rank == get_hvd_rank(lib)
    IN  IF ~(has_hvd_support /\ rank > -1)
        THEN [outcome |-> "ok", lib |-> lib, model |-> << >>, device |-> device,
              calls |-> << "rank" >>]
        ELSE LET m == ModelInit(lib, FALSE, rank, cuda, device)
             IN  [m EXCEPT !.calls = << "rank" >> \o @]

\* a create_from_backend that does not ask the rank before it initializes
CreateFromBackendNoRankCheck(lib, backend, r, cuda, device) ==
    IF backend \notin available_backends
    THEN [outcome |-> "ValueError", lib |-> lib, model |-> << >>, device |-> device,
          calls |-> << >>]
    ELSE ModelInit(lib, TRUE, r, cuda, device)

\* create_from_backend(backend, **kwargs)
create_from_backend(lib, backend, r, cuda, device) ==
    IF backend \notin available_backends
    THEN [outcome |-> "ValueError", lib |-> lib, model |-> << >>, device |-> device,
          calls |-> << >>]
    ELSE LET rank == get_hvd_rank(lib)
         IN  IF has_hvd_support /\ rank > -1
             THEN [outcome |-> "RuntimeError", lib |-> lib, model |-> << >>,
                   device |-> device, calls |-> << "rank" >>]
             ELSE LET m == ModelInit(lib, TRUE, r, cuda, device)
                  IN  [m EXCEPT !.calls = << "rank" >> \o @]

\* finalize()
finalize(lib) ==
    [outcome |-> "ok", lib |-> HvdShutdown(lib), calls |-> << "shutdown" >>, returned |-> 0]

\* get_rank()
get_rank(lib) ==
    [outcome |-> HvdRank(lib).outcome, lib |-> lib, calls |-> << "rank" >>,
     returned |-> HvdRank(lib).value]

\* barrier()
barrier(lib) ==
    [outcome |-> IF lib.initialized THEN "ok" ELSE "ValueError", lib |-> lib,
     calls |-> << "allreduce" >>, returned |-> 0]

ReduceOps == {"SUM", "PRODUCT", "MIN", "MAX", "AND", "OR"}

\* _do_all_reduce as its commented-out body would have it
DoAllReduceCommentedOut(lib, tensor, op) ==
    IF op \notin ReduceOps
    THEN [outcome |-> "ValueError", lib |-> lib, calls |-> << >>, returned |-> 0]
    ELSE [outcome |-> IF lib.initialized THEN "ok" ELSE "ValueError", lib |-> lib,
          calls |-> << "allreduce" >>, returned |-> tensor]

\* _do_all_reduce(tensor, op)
do_all_reduce(lib, tensor, op) ==
    [outcome |-> "NotImplementedError", lib |-> lib, calls |-> << >>, returned |-> 0]

\* _do_all_gather(tensor)
do_all_gather(lib, tensor) ==
    [outcome |-> "NotImplementedError", lib |-> lib, calls |-> << >>, returned |-> 0]

(***************************************************************************)
(* SpecHvd: a process creates computation models, uses and finalizes them. *)
(***************************************************************************)
Backends == {HOROVOD, "nccl", "gloo"}

Tensors == 0 .. MaxTensor

\* the user initializes the library before ignite is asked for a model
UserInit(r) ==
    /\ ~hvd.initialized
    /\ hvd' = HvdInit(hvd, r)
    /\ lastHvd' = [NoHvd EXCEPT !.op = "hvd.init", !.outcome = "ok", !.calls = << "init" >>]
    /\ UNCHANGED << cudaDevice, models, restHvd >>

CreateFromContext(cuda) ==
    LET r == create_from_context(hvd, cuda, cudaDevice)
    IN  /\ Len(models) < MaxModels
        /\ hvd' = r.lib
        /\ cudaDevice' = r.device
        /\ models' = models \o r.model
        /\ lastHvd' = [NoHvd EXCEPT !.op = "create_from_context", !.outcome = r.outcome,
                                    !.calls = r.calls,
                                    !.model = IF r.model = << >> THEN 0 ELSE Len(models) + 1]
        /\ UNCHANGED restHvd

CreateFromBackend(backend, rank, cuda) ==
    LET r == create_from_backend(hvd, backend, rank, cuda, cudaDevice)
    IN  /\ Len(models) < MaxModels
        /\ hvd' = r.lib
        /\ cudaDevice' = r.device
        /\ models' = models \o r.model
        /\ lastHvd' = [NoHvd EXCEPT !.op = "create_from_backend", !.arg = backend,
                                    !.outcome = r.outcome, !.calls = r.calls,
                                    !.model = IF r.model = << >> THEN 0 ELSE Len(models) + 1]
        /\ UNCHANGED restHvd

\* an operation of the model object models[m] whose result is r
ModelOp(m, name, arg, tensor, r) ==
    /\ hvd' = r.lib
    /\ lastHvd' = [op |-> name, model |-> m, arg |-> arg, tensor |-> tensor,
                   outcome |-> r.outcome, calls |-> r.calls, returned |-> r.returned]
    /\ UNCHANGED << cudaDevice, models, restHvd >>

Finalize(m) == ModelOp(m, "finalize", "", 0, finalize(hvd))

GetRank(m) == ModelOp(m, "get_rank", "", 0, get_rank(hvd))

Barrier(m) == ModelOp(m, "barrier", "", 0, barrier(hvd))

DoAllReduce(m, tensor, op) ==
    ModelOp(m, "_do_all_reduce", op, tensor, do_all_reduce(hvd, tensor, op))

DoAllGather(m, tensor) ==
    ModelOp(m, "_do_all_gather", "", tensor, do_all_gather(hvd, tensor))

NextHvd ==
    \/ \E r \in 0 .. MaxRank : UserInit(r)
    \/ \E cuda \in BOOLEAN : CreateFromContext(cuda)
    \/ \E backend \in Backends, r \in 0 .. MaxRank, cuda \in BOOLEAN :
          CreateFromBackend(backend, r, cuda)
    \/ \E m \in DOMAIN models : Finalize(m)
    \/ \E m \in DOMAIN models : GetRank(m)
    \/ \E m \in DOMAIN models : Barrier(m)
    \/ \E m \in DOMAIN models, tensor \in Tensors, op \in {"SUM", "MAX", "MEAN"} :
          DoAllReduce(m, tensor, op)
    \/ \E m \in DOMAIN models, tensor \in Tensors : DoAllGather(m, tensor)

SpecHvd == Init /\ [][NextHvd]_vars

\* C10: _do_all_reduce and _do_all_gather raise NotImplementedError whatever
\* the tensor and the operation, with the library initialized or shut down,
\* and call nothing of the library.
C10_CollectivesNotImplemented ==
    lastHvd.op \in {"_do_all_reduce", "_do_all_gather"} =>
        /\ lastHvd.outcome = "NotImplementedError"
        /\ lastHvd.calls = << >>

\* _do_all_reduce(tensor, "SUM") on a model whose library was shut down
C10_Witness ==
    /\ lastHvd.op = "_do_all_reduce"
    /\ lastHvd.arg = "SUM"
    /\ lastHvd.outcome = "NotImplementedError"
    /\ ~hvd.initialized
    /\ Len(models) = MaxModels

\* the library call c is among the calls made
Invokes(c, calls) == \E i \in DOMAIN calls : calls[i] = c

\* one step of the process, from the library as the operation found it
\* (hvd) to the operation's record (lastHvd')
C11_Step ==
    /\ (lastHvd'.op \in {"create_from_backend", "create_from_context", "finalize"}
           /\ Invokes("init", lastHvd'.calls)) => ~hvd.initialized
    /\ (lastHvd'.op = "create_from_backend" /\ lastHvd'.arg = HOROVOD
           /\ hvd.initialized) =>
          /\ lastHvd'.outcome = "RuntimeError"
          /\ lastHvd'.model = 0
          /\ hvd' = hvd
    /\ (lastHvd'.op = "create_from_backend" /\ lastHvd'.arg # HOROVOD) =>
          /\ lastHvd'.outcome = "ValueError"
          /\ lastHvd'.calls = << >>
          /\ lastHvd'.model = 0
          /\ hvd' = hvd
    /\ lastHvd'.op = "create_from_context" =>
          /\ lastHvd'.outcome = "ok"
          /\ ~Invokes("init", lastHvd'.calls)
          /\ hvd' = hvd
          /\ (lastHvd'.model = 0) <=> ~hvd.initialized

\* C11: in every sequence of create_from_backend, create_from_context and
\* finalize calls, hvd.init is never called while Horovod is initialized:
\* create_from_backend("horovod") raises RuntimeError in that state,
\* create_from_backend with another backend raises ValueError and calls
\* nothing of the library, and create_from_context never initializes and
\* returns None exactly when Horovod is not initialized.
C11_InitOnlyWhenNotInitialized == [][C11_Step]_vars

\* create_from_backend("horovod") refused with RuntimeError, a model having
\* been created before and Horovod still being initialized
C11_Witness ==
    /\ lastHvd.op = "create_from_backend"
    /\ lastHvd.arg = HOROVOD
    /\ lastHvd.outcome = "RuntimeError"
    /\ lastHvd.calls = << "rank" >>
    /\ hvd.initialized
    /\ Len(models) = 1

(***************************************************************************)
(* The engine's handler registry (ignite.engine.engine.Engine), keyed by   *)
(* event name.  An entry holds the handler h; for a filtered event the     *)
(* engine stores a wrapper around h, which it compares as h.               *)
(***************************************************************************)
\* Engine.has_event_handler(handler, event_name)
has_event_handler(reg, handler, event_name) ==
    \E i \in DOMAIN reg[event_name.name] : reg[event_name.name][i].h = handler

RECURSIVE Without(_, _)
Without(entries, handler) ==
    IF entries = << >>
    THEN << >>
    ELSE IF Head(entries).h = handler
         THEN Without(Tail(entries), handler)
         ELSE << Head(entries) >> \o Without(Tail(entries), handler)

\* Engine.remove_event_handler(handler, event_name): ValueError when it finds none
remove_event_handler(reg, handler, event_name) ==
    IF ~has_event_handler(reg, handler, event_name)
    THEN [outcome |-> "ValueError", reg |-> reg]
    ELSE [outcome |-> "ok",
          reg |-> [reg EXCEPT ![event_name.name] = Without(@, handler)]]

\* Engine.add_event_handler(event_name, handler), for each event of an EventsList
RECURSIVE add_event_handler(_, _, _)
add_event_handler(reg, events, handler) ==
    IF events = << >>
    THEN reg
    ELSE add_event_handler(
             [reg EXCEPT ![Head(events).name] = Append(@, [h |-> handler])],
             Tail(events), handler)

(***************************************************************************)
(* RemovableEventHandle.  event_name is an event or an EventsList; the     *)
(* handler and the engine are held by weak reference.                      *)
(***************************************************************************)
\* RemovableEventHandle.__init__(event_name, handler, engine)
NewHandle(isList, events, handler) ==
    [isList |-> isList, events |-> events, handler |-> handler]

\* lines 397-398 and 400-401, for one event
RemoveIfHas(reg, calls, handler, e) ==
    IF has_event_handler(reg, handler, e)
    THEN LET r == remove_event_handler(reg, handler, e)
         IN  [outcome |-> r.outcome, reg |-> r.reg,
              calls |-> calls \o << "has_event_handler", "remove_event_handler" >>]
    ELSE [outcome |-> "ok", reg |-> reg, calls |-> Append(calls, "has_event_handler")]

\* lines 396-398: for e in self.event_name
RECURSIVE RemoveEach(_, _, _, _)
RemoveEach(reg, calls, handler, events) ==
    IF events = << >>
    THEN [outcome |-> "ok", reg |-> reg, calls |-> calls]
    ELSE LET r == RemoveIfHas(reg, calls, handler, Head(events))
         IN  IF r.outcome # "ok"
             THEN r
             ELSE RemoveEach(r.reg, r.calls, handler, Tail(events))

\* a remove() that stops after the first event of an EventsList
RemoveFirstOnly(h, alive, engine, reg) ==
    IF h.handler \notin alive \/ ~engine
    THEN [outcome |-> "ok", reg |-> reg, calls |-> << >>]
    ELSE RemoveIfHas(reg, << >>, h.handler, h.events[1])

\* a remove() that does not look whether its weak references are dead
RemoveNoWeakCheck(h, alive, engine, reg) ==
    IF h.isList
    THEN RemoveEach(reg, << >>, h.handler, h.events)
    ELSE RemoveIfHas(reg, << >>, h.handler, h.events[1])

\* RemovableEventHandle.remove(), the handlers in alive and the engine (if
\* engine is true) not yet collected
remove(h, alive, engine, reg) ==
    IF h.handler \notin alive \/ ~engine
    THEN [outcome |-> "ok", reg |-> reg, calls |-> << >>]
    ELSE IF h.isList
         THEN RemoveEach(reg, << >>, h.handler, h.events)
         ELSE RemoveIfHas(reg, << >>, h.handler, h.events[1])

\* RemovableEventHandle.__enter__(): returns the handle
handle_enter(h, alive, engine, reg) ==
    [outcome |-> "ok", reg |-> reg, calls |-> << >>]

\* an __exit__ that removes nothing
ExitWithoutRemove(h, alive, engine, reg) ==
    [outcome |-> "ok", reg |-> reg, calls |-> << >>, suppress |-> FALSE]

\* RemovableEventHandle.__exit__(*args): removes, and returns None, so that an
\* exception of the body is not suppressed
handle_exit(h, alive, engine, reg) ==
    LET r == remove(h, alive, engine, reg)
    IN  [outcome |-> r.outcome, reg |-> r.reg, calls |-> r.calls, suppress |-> FALSE]

(***************************************************************************)
(* SpecHandle: handlers are registered on one engine, the caller keeps one *)
(* of the handles returned, removes through it or uses it in a with-       *)
(* statement whose body runs the engine; objects no longer referenced are  *)
(* garbage-collected.                                                      *)
(***************************************************************************)
\* the events handlers are registered with
HandleEvents ==
    { EventByName("EPOCH_COMPLETED"), EventByName("ITERATION_STARTED"),
      EventCall(EventByName("ITERATION_STARTED"), NoneArg, IntArg(3), NoneArg).ev }

\* e1 | e2 | ... : the _events of the EventsList
HandleLists ==
    UNION { [1 .. n -> HandleEvents] : n \in 2 .. MaxListLen }

HandleOp(op, r, changed, exc) ==
    [op |-> op, outcome |-> r.outcome, calls |-> r.calls, changed |-> changed, exc |-> exc]

HasRoom(reg) == \A n \in HandleNames : Len(reg[n]) <= MaxEntries

\* engine.add_event_handler(events, handler); with keep, the caller keeps the
\* handle (of print_epoch: the handlers are alike)
AddEventHandler(isList, events, handler, keep) ==
    LET reg == add_event_handler(registry, events, handler)
    IN  /\ engineAlive
        /\ handler \in handlerAlive
        /\ withPc = "out"
        /\ keep => (handle = << >> /\ handler = "print_epoch")
        /\ HasRoom(reg)
        /\ registry' = reg
        /\ handle' = IF keep THEN << NewHandle(isList, events, handler) >> ELSE handle
        /\ lastHandle' = [NoHandleOp EXCEPT !.op = "add_event_handler", !.outcome = "ok",
                                            !.changed = TRUE]
        /\ UNCHANGED << engineAlive, handlerAlive, withPc, state, restHandle >>

\* engine.remove_event_handler(handler, event_name), by the caller
UserRemove(handler, event_name) ==
    LET r == remove_event_handler(registry, handler, event_name)
    IN  /\ engineAlive
        /\ handler \in handlerAlive
        /\ withPc # "in"
        /\ r.outcome = "ok"
        /\ registry' = r.reg
        /\ lastHandle' = [NoHandleOp EXCEPT !.op = "remove_event_handler",
                                            !.outcome = "ok", !.changed = TRUE]
        /\ UNCHANGED << engineAlive, handlerAlive, handle, withPc, state, restHandle >>

\* handle.remove()
Remove ==
    LET r == remove(handle[1], handlerAlive, engineAlive, registry)
    IN  /\ handle # << >>
        /\ withPc # "in"
        /\ registry' = r.reg
        /\ lastHandle' = HandleOp("remove", r, r.reg # registry, FALSE)
        /\ UNCHANGED << engineAlive, handlerAlive, handle, withPc, state, restHandle >>

\* with handle:
Enter ==
    LET r == handle_enter(handle[1], handlerAlive, engineAlive, registry)
    IN  /\ handle # << >>
        /\ withPc = "out"
        /\ registry' = r.reg
        /\ withPc' = "in"
        /\ lastHandle' = HandleOp("enter", r, r.reg # registry, FALSE)
        /\ UNCHANGED << engineAlive, handlerAlive, handle, state, restHandle >>

\* the body of the with-statement: engine.run(data), which registers and
\* removes nothing
BodyRun ==
    /\ withPc = "in"
    /\ engineAlive
    /\ lastHandle' = [NoHandleOp EXCEPT !.op = "body", !.outcome = "ok"]
    /\ UNCHANGED << registry, engineAlive, handlerAlive, handle, withPc, state,
                    restHandle >>

\* the body ends, normally or (exc) by raising: __exit__ runs, and the
\* exception goes on unless __exit__ returns a true value
Exit(exc) ==
    LET r == handle_exit(handle[1], handlerAlive, engineAlive, registry)
    IN  /\ withPc = "in"
        /\ registry' = r.reg
        /\ withPc' = IF r.outcome # "ok" \/ (exc /\ ~r.suppress) THEN "raised" ELSE "left"
        /\ lastHandle' = HandleOp("exit", r, r.reg # registry, exc)
        /\ UNCHANGED << engineAlive, handlerAlive, handle, state, restHandle >>

\* the caller drops a handler that nothing else holds: the registry of a live
\* engine holds the handlers registered on it
CollectHandler(handler) ==
    /\ handler \in handlerAlive
    /\ engineAlive => \A n \in HandleNames :
                         \A i \in DOMAIN registry[n] : registry[n][i].h # handler
    /\ handlerAlive' = handlerAlive \ {handler}
    /\ lastHandle' = [NoHandleOp EXCEPT !.op = "gc", !.outcome = "ok"]
    /\ UNCHANGED << registry, engineAlive, handle, withPc, state, restHandle >>

\* the caller drops the engine: its registry goes with it
CollectEngine ==
    /\ engineAlive
    /\ engineAlive' = FALSE
    /\ registry' = EmptyRegistry
    /\ lastHandle' = [NoHandleOp EXCEPT !.op = "gc", !.outcome = "ok",
                                        !.changed = registry # EmptyRegistry]
    /\ UNCHANGED << handlerAlive, handle, withPc, state, restHandle >>

NextHandle ==
    \/ \E e \in HandleEvents, handler \in Handlers, keep \in BOOLEAN :
          AddEventHandler(FALSE, << e >>, handler, keep)
    \/ \E events \in HandleLists, handler \in Handlers, keep \in BOOLEAN :
          AddEventHandler(TRUE, events, handler, keep)
    \/ \E e \in HandleEvents, handler \in Handlers : UserRemove(handler, e)
    \/ Remove
    \/ Enter
    \/ BodyRun
    \/ \E exc \in BOOLEAN : Exit(exc)
    \/ \E handler \in Handlers : CollectHandler(handler)
    \/ CollectEngine

SpecHandle == Init /\ [][NextHandle]_vars

(***************************************************************************)
(* Claims about RemovableEventHandle (SpecHandle).                         *)
(***************************************************************************)
\* the handle's handler and the engine are both alive
BothAlive == handle # << >> /\ handle[1].handler \in handlerAlive /\ engineAlive

\* the handle's handler is registered for none of the handle's events
RegisteredForNone(reg) ==
    \A i \in DOMAIN handle[1].events :
        \A j \in DOMAIN reg[handle[1].events[i].name] :
            reg[handle[1].events[i].name][j].h # handle[1].handler

\* the handle's handler is registered for each of the handle's events
RegisteredForAll(reg) ==
    \A i \in DOMAIN handle[1].events :
        \E j \in DOMAIN reg[handle[1].events[i].name] :
            reg[handle[1].events[i].name][j].h = handle[1].handler

\* C7: when remove() has returned and the handler and the engine are alive,
\* the handler is registered for none of the handle's events: not for its
\* event, and not for any event of its EventsList.
C7_RemoveUnregisters ==
    (lastHandle.op = "remove" /\ BothAlive) =>
        (lastHandle.outcome = "ok" /\ RegisteredForNone(registry))

\* remove() of a handle for an EventsList of two event names took the handler
\* out of both
C7_Witness ==
    /\ lastHandle.op = "remove"
    /\ BothAlive
    /\ handle[1].isList
    /\ handle[1].events[1].name # handle[1].events[2].name
    /\ lastHandle.calls = << "has_event_handler", "remove_event_handler",
                             "has_event_handler", "remove_event_handler" >>

\* C8: entering the with-statement and running its body leave the registry
\* as it is, so the handler stays registered; when the block is left, by the
\* end of the body or by an exception, the handler is registered for none of
\* the handle's events, and the block ends raising exactly when the body
\* raised.
C8_ContextManager ==
    /\ lastHandle.op \in {"enter", "body"} =>
          (withPc = "in" /\ ~lastHandle.changed /\ lastHandle.calls = << >>)
    /\ lastHandle.op = "exit" =>
          /\ lastHandle.outcome = "ok"
          /\ BothAlive => RegisteredForNone(registry)
          /\ withPc = (IF lastHandle.exc THEN "raised" ELSE "left")

\* the body raised: the handler, registered until then, was removed, and the
\* exception went on
C8_Witness ==
    /\ lastHandle.op = "exit"
    /\ lastHandle.exc
    /\ withPc = "raised"
    /\ BothAlive
    /\ lastHandle.calls = << "has_event_handler", "remove_event_handler" >>
    /\ RegisteredForNone(registry)

\* the handle's handler or the engine has been garbage-collected
ReferentCollected ==
    handle # << >> /\ (handle[1].handler \notin handlerAlive \/ ~engineAlive)

\* C13: when remove() has run, called directly or by the exit of the with-
\* statement, with the handler or the engine garbage-collected, it has
\* returned without raising, has called neither has_event_handler nor
\* remove_event_handler, and has left the registry as it was.
C13_CollectedReferentNoOp ==
    (lastHandle.op \in {"remove", "exit"} /\ ReferentCollected) =>
        /\ lastHandle.outcome = "ok"
        /\ lastHandle.calls = << >>
        /\ ~lastHandle.changed

\* the with-statement is left with the handle's handler collected, the engine
\* alive and the other handler still registered for the handle's event
C13_Witness ==
    /\ lastHandle.op = "exit"
    /\ handle # << >>
    /\ handle[1].handler \notin handlerAlive
    /\ engineAlive
    /\ lastHandle.calls = << >>
    /\ \E j \in DOMAIN registry[handle[1].events[1].name] :
          registry[handle[1].events[1].name][j].h = "other"

=============================================================================
